---- MODULE Spec2Model ----
(***************************************************************************)
(* Model of the court-docket scraper (src/Code.js): the text utilities,    *)
(* zipArrays, the request builders, the extraction of the portal's         *)
(* responses and mainExecutionScript, the two-phase run that writes the    *)
(* weekly spreadsheet.                                                      *)
(*                                                                         *)
(* JavaScript strings on which the code works character by character are   *)
(* sequences of one-character strings; strings the code only copies and    *)
(* compares are TLA+ strings. A date "DD/MM/YYYY" is the number YYYYMMDD,   *)
(* whose digits are what slice() cuts out. A value that may be undefined   *)
(* is a sequence of length 0 (undefined) or 1; a scalar field of an object *)
(* that holds undefined holds the marker UNDEF.                            *)
(***************************************************************************)
EXTENDS Integers, Sequences, FiniteSets, TLC

\* ---------------------------------------------------------------- bounds
\* Room-assignment records the portal holds, over all courts.
MaxRecs == 2
\* Longest array handed to zipArrays in the stand-alone zip runs.
MaxLen == 2

\* ------------------------------------------------------------- utilities
Range(s) == {s[i] : i \in DOMAIN s}

\* Array.prototype.indexOf, 0-based; -1 when absent.
IndexOf(arr, x) ==
    IF \E i \in DOMAIN arr : arr[i] = x
    THEN (CHOOSE i \in DOMAIN arr : arr[i] = x /\ \A j \in 1..(i - 1) : arr[j] # x) - 1
    ELSE -1

\* [...new Set(arr)]: the distinct elements in order of first appearance.
RECURSIVE UniqueInOrder(_)
UniqueInOrder(arr) ==
    IF arr = <<>> THEN <<>>
    ELSE LET init == UniqueInOrder(SubSeq(arr, 1, Len(arr) - 1))
             last == arr[Len(arr)]
         IN  IF last \in Range(init) THEN init ELSE Append(init, last)

RECURSIVE Flatten(_)
Flatten(ss) == IF ss = <<>> THEN <<>> ELSE Head(ss) \o Flatten(Tail(ss))

\* ------------------------------------------------------- text normalizer
LowerAccented == {"á", "é", "í", "ó", "ú"}

\* accentMap, Code.js lines 27-38.
accentMap ==
    [c \in {"á", "é", "í", "ó", "ú", "Á", "É", "Í", "Ó", "Ú"} |->
        CASE c = "á" -> "a" [] c = "é" -> "e" [] c = "í" -> "i"
          [] c = "ó" -> "o" [] c = "ú" -> "u" [] c = "Á" -> "A"
          [] c = "É" -> "E" [] c = "Í" -> "I" [] c = "Ó" -> "O"
          [] c = "Ú" -> "U"]

\* accentRegex, /[áéíóú]/g: the five lower-case
\* accented vowels.
accentRegex(c) == c \in LowerAccented

removeAccents(inputString) ==
    [i \in DOMAIN inputString |->
        IF accentRegex(inputString[i]) THEN accentMap[inputString[i]]
        ELSE inputString[i]]

UpperChars == <<"A", "B", "C", "D", "E", "F", "G", "H", "I", "J", "K", "L", "M",
                "N", "O", "P", "Q", "R", "S", "T", "U", "V", "W", "X", "Y", "Z",
                "Á", "É", "Í", "Ó", "Ú">>
LowerChars == <<"a", "b", "c", "d", "e", "f", "g", "h", "i", "j", "k", "l", "m",
                "n", "o", "p", "q", "r", "s", "t", "u", "v", "w", "x", "y", "z",
                "á", "é", "í", "ó", "ú">>

\* String.prototype.toLowerCase on the characters of the model.
toLowerCase(str) ==
    [i \in DOMAIN str |->
        IF str[i] \in Range(UpperChars)
        THEN LowerChars[IndexOf(UpperChars, str[i]) + 1]
        ELSE str[i]]

salaStringReference ==
    << <<"d", "u", "m", "m", "y", " ", "i", "n", "d", "e", "x">>,
       <<"p", "r", "i", "m", "e", "r", "a">>,
       <<"s", "e", "g", "u", "n", "d", "a">>,
       <<"t", "e", "r", "c", "e", "r", "a">>,
       <<"c", "u", "a", "r", "t", "a">>,
       <<"q", "u", "i", "n", "t", "a">>,
       <<"s", "e", "x", "t", "a">>,
       <<"s", "e", "p", "t", "i", "m", "a">>,
       <<"o", "c", "t", "a", "v", "a">>,
       <<"n", "o", "v", "e", "n", "a">>,
       <<"d", "e", "c", "i", "m", "a">>,
       <<"u", "n", "d", "e", "c", "i", "m", "a">>,
       <<"d", "u", "o", "d", "e", "c", "i", "m", "a">>,
       <<"d", "e", "c", "i", "m", "o", "t", "e", "r", "c", "e", "r", "a">> >>

salaStringToNumber(inputString) ==
    IndexOf(salaStringReference, toLowerCase(inputString))

translateRoomNameToRoomNumber(roomNameString) ==
    salaStringToNumber(removeAccents(roomNameString))

\* ------------------------------------------------------------ JS objects
\* The marker of an undefined scalar: a field that holds it reads like a
\* field that is absent.
UNDEF == "<undefined>"

\* Fields of the model that hold scalars (strings); the other fields hold
\* objects or arrays, which are never undefined.
ScalarFields == {"a", "b"}

\* obj[key] = value on a copy of obj.
SetField(obj, key, value) == (key :> value) @@ obj

\* JSON.parse(JSON.stringify(array)) on an array of plain objects: an equal
\* structure that shares nothing with the original, without the fields whose
\* value is undefined (stringify drops them).
JSONClone(array) ==
    [i \in DOMAIN array |->
        [k \in {f \in DOMAIN array[i] :
                    ~(f \in ScalarFields /\ array[i][f] = UNDEF)} |-> array[i][k]]]

\* The result of a call: it threw, or it returned value. mainArray is the
\* caller's array as the call leaves it.
zipArrays_InPlace(mainArray, dataToAppend, dataIdentifier) ==
    LET merged == [i \in DOMAIN mainArray |->
                      IF i \in DOMAIN dataToAppend
                      THEN SetField(mainArray[i], dataIdentifier, dataToAppend[i])
                      ELSE mainArray[i]]
    IN  IF Len(mainArray) # Len(dataToAppend)
        THEN [threw |-> TRUE, mainArray |-> mainArray, value |-> <<>>]
        ELSE [threw |-> FALSE, mainArray |-> merged, value |-> merged]

zipArrays_Truncating(mainArray, dataToAppend, dataIdentifier) ==
    LET zippedArray == JSONClone(mainArray)
        n == IF Len(mainArray) < Len(dataToAppend) THEN Len(mainArray)
             ELSE Len(dataToAppend)
    IN  [threw |-> FALSE, mainArray |-> mainArray,
         value |-> [i \in 1..n |->
                       SetField(zippedArray[i], dataIdentifier, dataToAppend[i])]]

zipArrays(mainArray, dataToAppend, dataIdentifier) ==
    LET zippedArray == JSONClone(mainArray)
    IN  IF Len(mainArray) # Len(dataToAppend)
        THEN [threw |-> TRUE, mainArray |-> mainArray, value |-> <<>>]
        ELSE [threw |-> FALSE, mainArray |-> mainArray,
              value |-> [i \in DOMAIN zippedArray |->
                            SetField(zippedArray[i], dataIdentifier, dataToAppend[i])]]

\* ------------------------------------------------- HTML record extractor
\* A response body is [isRoomResponse, panels]: whether the body holds
\* <table id="dataTypeTable", and its <div class="panel-body"> blocks in
\* document order, each the inner texts of its <td> cells in document order.

\* matches[i] with a 0-based index: undefined past the end.
At(matches, i) == IF i < Len(matches) THEN <<matches[i + 1]>> ELSE <<>>

\* An object literal: the fields whose value is undefined read as absent.
ObjectOf(names, values) ==
    [k \in {names[j] : j \in {j \in DOMAIN names : values[j] # <<>>}} |->
        values[CHOOSE j \in DOMAIN names : names[j] = k][1]]

\* The loop of lines 263-281 over one body's cells; it throws where
\* removeAccents receives undefined (a room body whose last group has one
\* cell).
RECURSIVE ProcessedObjects(_, _, _)
ProcessedObjects(matches, isRoomResponse, i) ==
    IF i >= Len(matches) THEN [threw |-> FALSE, value |-> <<>>]
    ELSE LET rest == ProcessedObjects(matches, isRoomResponse, i + 3)
             obj == IF isRoomResponse
                    THEN ObjectOf(<<"fecha", "salaStr", "salaInt", "relator">>,
                                  <<At(matches, i), At(matches, i + 1),
                                    <<translateRoomNameToRoomNumber(matches[i + 2])>>,
                                    At(matches, i + 2)>>)
                    ELSE ObjectOf(<<"lugar", "caratula", "id_ingreso">>,
                                  <<At(matches, i), At(matches, i + 1),
                                    At(matches, i + 2)>>)
         IN  IF (isRoomResponse /\ i + 1 >= Len(matches)) \/ rest.threw
             THEN [threw |-> TRUE, value |-> <<>>]
             ELSE [threw |-> FALSE, value |-> <<obj>> \o rest.value]

\* Line 259: allOuterMatches[allOuterMatches.length - 1], undefined when the
\* body has no panel.
outerMatch(allOuterMatches) ==
    IF allOuterMatches = <<>> THEN <<>>
    ELSE <<allOuterMatches[Len(allOuterMatches)]>>

\* An extractor that reads a body without panel as a body without cells.
cleanUpResponses_Lenient(arrayOfContentTextResponses) ==
    [threw |-> FALSE,
     value |-> [j \in DOMAIN arrayOfContentTextResponses |->
                   IF arrayOfContentTextResponses[j].panels = <<>> THEN <<>>
                   ELSE ProcessedObjects(
                            outerMatch(arrayOfContentTextResponses[j].panels)[1],
                            arrayOfContentTextResponses[j].isRoomResponse, 0).value]]

cleanUpResponses(arrayOfContentTextResponses) ==
    LET one(response) ==
            IF outerMatch(response.panels) = <<>>
            THEN [threw |-> TRUE, value |-> <<>>]
            ELSE ProcessedObjects(outerMatch(response.panels)[1],
                                  response.isRoomResponse, 0)
    IN  IF \E j \in DOMAIN arrayOfContentTextResponses :
                one(arrayOfContentTextResponses[j]).threw
        THEN [threw |-> TRUE, value |-> <<>>]
        ELSE [threw |-> FALSE,
              value |-> [j \in DOMAIN arrayOfContentTextResponses |->
                            one(arrayOfContentTextResponses[j]).value]]

\* The grouped form of cleanAndProcessResponses (lines 239-244).
cleanAndProcessGrouped(rawResponses) ==
    IF \E g \in DOMAIN rawResponses : cleanUpResponses(rawResponses[g]).threw
    THEN [threw |-> TRUE, value |-> <<>>]
    ELSE [threw |-> FALSE,
          value |-> [g \in DOMAIN rawResponses |->
                        cleanUpResponses(rawResponses[g]).value]]

\* -------------------------------------------------------- request builder
\* A builder of the week's parameters that takes them from a fixed table (as
\* testingScript's) rather than from the rooms fetched.
extractParametersFromRoomsData_Fixed(courtData) ==
    [t \in DOMAIN courtData |->
        [fechas |-> <<20230925, 20230926, 20230927>>, salas |-> <<1, 2, 3, 4>>]]

\* [...new Set(tribunal.map(room => room[key]))], per court.
extractParametersFromRoomsData(courtData) ==
    [t \in DOMAIN courtData |->
        [fechas |-> UniqueInOrder([r \in DOMAIN courtData[t] |-> courtData[t][r].fecha]),
         salas |-> UniqueInOrder([r \in DOMAIN courtData[t] |-> courtData[t][r].salaInt])]]

\* !element.courtData.codCorte || !element.courtData.condicion: an empty
\* cell of the sheet reads as "", which is falsy.
InvalidCourt(element) ==
    element.courtData.codCorte = "" \/ element.courtData.condicion = ""

roomRequest(court) ==
    [url |-> "https://www.pjud.cl/ajax/Courts/getDataTypeTableSelectedML/",
     method |-> "post",
     payload |-> [codTribunal |-> court.codCorte, codTypeTable |-> 3,
                  condicion |-> court.condicion]]

createRoomRequestsArray_Unchecked(courtParameters) ==
    [threw |-> FALSE,
     value |-> [e \in DOMAIN courtParameters |->
                   roomRequest(courtParameters[e].courtData)]]

createRoomRequestsArray_Reversed(courtParameters) ==
    IF \E e \in DOMAIN courtParameters : InvalidCourt(courtParameters[e])
    THEN [threw |-> TRUE, value |-> <<>>]
    ELSE [threw |-> FALSE,
          value |-> [e \in DOMAIN courtParameters |->
                        roomRequest(courtParameters[Len(courtParameters) + 1 - e].courtData)]]

createRoomRequestsArray(courtParameters) ==
    IF \E e \in DOMAIN courtParameters : InvalidCourt(courtParameters[e])
    THEN [threw |-> TRUE, value |-> <<>>]
    ELSE [threw |-> FALSE,
          value |-> [e \in DOMAIN courtParameters |->
                        roomRequest(courtParameters[e].courtData)]]

caseRequest(parameter, fecha, sala) ==
    [url |-> "https://www.pjud.cl/ajax/Courts/constitutionOfRoomML/",
     method |-> "post",
     payload |-> [numSala |-> sala, codCorte |-> parameter.courtData.codCorte,
                  tipoTabla |-> 3, fecha |-> fecha, nomSala |-> "",
                  condicion |-> parameter.courtData.condicion]]

\* A builder that pairs the i-th date with the i-th room.
createCaseRequestsArray_Paired(courtAndDateParameters) ==
    [p \in DOMAIN courtAndDateParameters |->
        LET parameter == courtAndDateParameters[p]
            n == IF Len(parameter.weekInfo.fechas) < Len(parameter.weekInfo.salas)
                 THEN Len(parameter.weekInfo.fechas)
                 ELSE Len(parameter.weekInfo.salas)
        IN  [i \in 1..n |-> caseRequest(parameter, parameter.weekInfo.fechas[i],
                                        parameter.weekInfo.salas[i])]]

\* For each court, for each date (outer loop), for each room (inner loop).
createCaseRequestsArray(courtAndDateParameters) ==
    [p \in DOMAIN courtAndDateParameters |->
        LET parameter == courtAndDateParameters[p]
        IN  Flatten([i \in DOMAIN parameter.weekInfo.fechas |->
                        [s \in DOMAIN parameter.weekInfo.salas |->
                            caseRequest(parameter, parameter.weekInfo.fechas[i],
                                        parameter.weekInfo.salas[s])]])]

\* ------------------------------------------------------------- datestamp
monthsInSpanish ==
    <<"Enero", "Febrero", "Marzo", "Abril", "Mayo", "Junio", "Julio", "Agosto",
      "Septiembre", "Octubre", "Noviembre", "Diciembre">>

\* monthsInSpanish[monthNumber - 1]: undefined outside 1..12.
getMonthName(monthNumber) ==
    IF monthNumber \in 1..12 THEN <<monthsInSpanish[monthNumber]>> ELSE <<>>

\* firstDate.slice(-4) and firstDate.slice(3, 5) of "DD/MM/YYYY".
YearDigits(date) == date \div 10000
MonthDigits(date) == (date \div 100) % 100

\* "Semana del " + firstDate + " al " + lastDate, kept as its two variable
\* parts; lastDate is undefined when the court has one date.
WeekLabel(firstDate, lastDate) == [firstDate |-> firstDate, lastDate |-> lastDate]

\* It throws when there is no court (dates[0] is undefined) or the first
\* court has no date (firstDate.slice on undefined).
getDatestampData(dates) ==
    IF dates = <<>> \/ dates[1].fechas = <<>>
    THEN [threw |-> TRUE, value |-> <<>>]
    ELSE LET copyOfDateStrings == dates[1].fechas
             firstDate == Head(copyOfDateStrings)
             afterShift == Tail(copyOfDateStrings)
             lastDate == IF afterShift = <<>> THEN <<>>
                         ELSE <<afterShift[Len(afterShift)]>>
         IN  [threw |-> FALSE,
              value |-> [spreadsheetName |-> WeekLabel(firstDate, lastDate),
                         yearFolderName |-> YearDigits(firstDate),
                         monthFolderName |->
                             <<YearDigits(firstDate), MonthDigits(firstDate),
                               getMonthName(MonthDigits(firstDate))>>]]

\* ------------------------------------------------- row projection, filter
\* Whether needle occurs in hay (sequences of characters).
Contains(hay, needle) ==
    \E k \in 0..(Len(hay) - Len(needle)) :
        \A j \in 1..Len(needle) : hay[k + j] = needle[j]

\* new RegExp(filteringTerms.join("|"), "i").test(text): the terms are plain
\* words; joining no term gives the empty pattern, which is its one
\* alternative.
RegexTest(filteringTerms, text) ==
    LET alternatives == IF filteringTerms = <<>> THEN {<<>>}
                        ELSE Range(filteringTerms)
    IN  \E t \in alternatives : Contains(toLowerCase(text), toLowerCase(t))

RowsOfRoom(court, cbrIndex) ==
    [c \in DOMAIN court.casesData[cbrIndex] |->
        LET singleCase == court.casesData[cbrIndex][c]
        IN  <<court.roomsData[cbrIndex].fecha,
              court.courtData.NombreCorte,
              singleCase.lugar,
              singleCase.caratula,
              singleCase.id_ingreso,
              court.roomsData[cbrIndex].relator,
              court.roomsData[cbrIndex].salaInt,
              "", "", "">>]

\* It throws where a non-empty case list has no room record at its index
\* (court.roomsData[cbrIndex] is undefined).
readyResponsesForSheet(courtsRoomsAndCases, filteringTerms) ==
    IF \E c \in DOMAIN courtsRoomsAndCases :
          \E cbrIndex \in DOMAIN courtsRoomsAndCases[c].casesData :
              /\ courtsRoomsAndCases[c].casesData[cbrIndex] # <<>>
              /\ cbrIndex > Len(courtsRoomsAndCases[c].roomsData)
    THEN [threw |-> TRUE, value |-> <<>>]
    ELSE LET todas == Flatten([c \in DOMAIN courtsRoomsAndCases |->
                         Flatten([cbrIndex \in DOMAIN courtsRoomsAndCases[c].casesData |->
                             RowsOfRoom(courtsRoomsAndCases[c], cbrIndex)])])
             names == {courtsRoomsAndCases[c].courtData.NombreCorte :
                          c \in DOMAIN courtsRoomsAndCases}
             OfCourt(name) == LET Keep(row) == row[2] = name
                              IN  SelectSeq(todas, Keep)
             Filtered(item) == RegexTest(filteringTerms, removeAccents(toLowerCase(item[4])))
         IN  [threw |-> FALSE,
              value |-> [k \in {"Todas las causas", "Filtrado"} \cup names |->
                            IF k = "Todas las causas" THEN todas
                            ELSE IF k = "Filtrado" THEN SelectSeq(todas, Filtered)
                            ELSE OfCourt(k)]]

\* ----------------------------------------------------------- environment
\* What the run reads from outside: the 'Cortes' sheet, the portal and the
\* filter terms.
Dates == {20230925, 20230926}
PreviousWeek == WeekLabel(20230918, <<20230922>>)
RoomLabels == {<<"P", "r", "i", "m", "e", "r", "a">>,
               <<"S", "é", "p", "t", "i", "m", "a">>}
CaseCounts == {0, 1}
TermSheet == << <<"q", "u", "e", "j", "a">> >>
Queja == <<"R", "e", "c", "u", "r", "s", "o", " ", "d", "e", " ", "Q", "u", "e", "j", "a">>
Amparo == <<"A", "m", "p", "a", "r", "o">>

\* The courts the 'Cortes' sheet may list, in its order of rows.
CourtNames == <<"Corte Suprema", "Santiago">>

\* Row k of the sheet; a row may lack its court code or its condition.
SheetRow(k, kind) ==
    [codCorte |-> IF kind = "noCode" THEN "" ELSE ToString(k),
     condicion |-> IF kind = "noCond" THEN "" ELSE "ML",
     NombreCorte |-> CourtNames[k]]

\* The sheet lists the first n courts, each row complete or not.
Sheets ==
    UNION {[1..n -> {"ok", "noCode", "noCond"}] : n \in 0..Len(CourtNames)}

\* A room assignment as the portal lists it; the rapporteur's name tells the
\* date and room it was assigned to.
RoomRecords ==
    {[fecha |-> d, salaStr |-> l, relator |-> [fecha |-> d, salaStr |-> l]] :
        d \in Dates, l \in RoomLabels}

RECURSIVE SeqsOfLen(_, _)
SeqsOfLen(S, n) ==
    IF n = 0 THEN {<<>>}
    ELSE {Append(s, x) : s \in SeqsOfLen(S, n - 1), x \in S}

\* The portal's room assignments of n courts, at most budget of them in all.
RECURSIVE Portals(_, _)
Portals(n, budget) ==
    IF n = 0 THEN {<<>>}
    ELSE UNION {{<<recs>> \o rest : rest \in Portals(n - 1, budget - Len(recs))} :
                   recs \in UNION {SeqsOfLen(RoomRecords, m) : m \in 0..budget}}

RoomBody(recs) ==
    [isRoomResponse |-> TRUE,
     panels |-> <<Flatten([r \in DOMAIN recs |->
                     <<recs[r].fecha, recs[r].salaStr, recs[r].relator>>])>>]

\* The portal's answer to a case request: n cases, each naming the court,
\* date and room it was asked for.
CaseBody(request, n) ==
    [isRoomResponse |-> FALSE,
     panels |-> <<Flatten([j \in 1..n |->
                     <<[codCorte |-> request.payload.codCorte,
                        fecha |-> request.payload.fecha,
                        numSala |-> request.payload.numSala],
                       IF request.payload.numSala = 1 THEN Queja ELSE Amparo,
                       ToString(j)>>])>>]

ErrorPage == [isRoomResponse |-> FALSE, panels |-> <<>>]

\* ------------------------------------------------------------------ state
VARIABLES
    sheet,               \* the 'Cortes' sheet: one kind of row per court
    portal,              \* the portal's room assignments per court, <<>> until read
    lastUpdate,          \* script property "last-update": <<>> or <<label>>
    drive,               \* destination spreadsheets: which exist, which tabs hold rows
    pc,                  \* position of mainExecutionScript, "idle" between runs
    err,                 \* the error that ended the run, "" if none
    courts, roomRequests, rooms, dates, datestamp, filteringTerms,
    caseRequests, cases, courtsRoomsAndCases, dataForPrinting,
    run,                 \* what the current run has done so far
    prev,                \* the same for the run before it, <<>> if none
    completed,           \* label of the last run that wrote and notified, or <<>>
    zin, zout, zpc,      \* the stand-alone zip runs: inputs, results, position
    input, output, called \* a stand-alone call of a function, and which one

pipeVars == <<sheet, portal, lastUpdate, drive, pc, err, courts, roomRequests,
              rooms, dates, datestamp, filteringTerms, caseRequests, cases,
              courtsRoomsAndCases, dataForPrinting, run, prev, completed>>
zipVars == <<zin, zout, zpc>>
callVars == <<input, output, called>>
vars == <<pipeVars, zipVars, callVars>>

locals == <<courts, roomRequests, rooms, dates, datestamp, filteringTerms,
            caseRequests, cases, courtsRoomsAndCases, dataForPrinting>>

BlankRun == [stored |-> <<>>, fetched |-> {}, created |-> FALSE,
             wrote |-> FALSE, notified |-> FALSE, label |-> <<>>]

LocalsCleared ==
    /\ courts = <<>> /\ roomRequests = <<>> /\ rooms = <<>> /\ dates = <<>>
    /\ datestamp = <<>> /\ filteringTerms = <<>> /\ caseRequests = <<>>
    /\ cases = <<>> /\ courtsRoomsAndCases = <<>>
    /\ dataForPrinting = <<>>

ZipIdle == zin = <<>> /\ zout = <<>> /\ zpc = "off"

CallIdle == input = <<>> /\ output = <<>> /\ called = "off"

\* The pipeline at rest, for the runs of one function on its own.
PipelineOff ==
    /\ sheet = <<>> /\ portal = <<>> /\ lastUpdate = <<>>
    /\ drive = [created |-> {}, rows |-> {}]
    /\ pc = "off" /\ err = "" /\ LocalsCleared /\ run = BlankRun /\ prev = <<>>
    /\ completed = <<>>

\* Drive after the run that stored the previous week's label.
PreviousWeekDrive ==
    [created |-> {PreviousWeek},
     rows |-> {<<PreviousWeek, t>> :
                  t \in {"Todas las causas", "Filtrado"} \cup Range(CourtNames)}]

\* Before the first run of the model: the script never ran, or its last
\* complete run was the previous week's.
Init ==
    /\ sheet \in Sheets
    /\ portal = <<>>
    /\ lastUpdate \in {<<>>, <<PreviousWeek>>}
    /\ drive = IF lastUpdate = <<>> THEN [created |-> {}, rows |-> {}]
               ELSE PreviousWeekDrive
    /\ pc = "idle"
    /\ err = ""
    /\ LocalsCleared
    /\ run = BlankRun
    /\ prev = <<>>
    /\ completed = lastUpdate
    /\ ZipIdle
    /\ CallIdle

Throw(message) == pc' = "failed" /\ err' = message

\* ------------------------------------------------- mainExecutionScript
\* getCourtParameters: one { courtData } per row under the header.
getCourtParameters == [k \in DOMAIN sheet |-> [courtData |-> SheetRow(k, sheet[k])]]

\* Lines 352-353: read the courts, build the room requests.
StartRun ==
    /\ pc = "idle"
    /\ run' = [BlankRun EXCEPT !.stored = lastUpdate]
    /\ courts' = getCourtParameters
    /\ LET r == createRoomRequestsArray(courts')
       IN  IF r.threw
           THEN Throw("Invalid court data object.") /\ UNCHANGED roomRequests
           ELSE pc' = "fetchRooms" /\ err' = "" /\ roomRequests' = r.value
    /\ UNCHANGED <<sheet, portal, lastUpdate, drive, rooms, dates, datestamp,
                   filteringTerms, caseRequests, cases, courtsRoomsAndCases,
                   dataForPrinting, prev, completed, zipVars, callVars>>

\* Line 354, getData(roomRequests): one fetchAll batch, then the extraction.
\* The batch may fail, and the portal may answer a court with an error page.
FetchRooms ==
    /\ pc = "fetchRooms"
    /\ run' = [run EXCEPT !.fetched = @ \cup {"rooms"}]
    /\ \/ Throw("fetchAll failed") /\ UNCHANGED <<portal, rooms>>
       \/ \E content \in IF portal = <<>> THEN Portals(Len(roomRequests), MaxRecs)
                          ELSE {portal} :
             /\ portal' = content
             /\ \E broken \in SUBSET (DOMAIN roomRequests) :
                   /\ Cardinality(broken) <= 1
                   /\ LET rawResponses ==
                              [k \in DOMAIN roomRequests |->
                                  IF k \in broken THEN ErrorPage
                                  ELSE RoomBody(content[k])]
                          r == cleanUpResponses(rawResponses)
                      IN  IF r.threw
                          THEN Throw("TypeError: no panel-body") /\ UNCHANGED rooms
                          ELSE pc' = "check" /\ err' = "" /\ rooms' = r.value
    /\ UNCHANGED <<sheet, lastUpdate, drive, courts, roomRequests, dates, datestamp,
                   filteringTerms, caseRequests, cases, courtsRoomsAndCases,
                   dataForPrinting, prev, completed, zipVars, callVars>>

\* The same step without the comparison: every run updates.
CheckUpdate_Always ==
    /\ pc = "check"
    /\ dates' = extractParametersFromRoomsData(rooms)
    /\ LET d == getDatestampData(dates')
       IN  IF d.threw
           THEN Throw("TypeError: no date") /\ UNCHANGED <<datestamp, run>>
           ELSE /\ datestamp' = d.value
                /\ run' = [run EXCEPT !.label = <<d.value.spreadsheetName>>]
                /\ err' = ""
                /\ LET updateNeeded == TRUE
                   IN  pc' = IF updateNeeded THEN "prepare" ELSE "skipped"
    /\ UNCHANGED <<sheet, portal, lastUpdate, drive, courts, roomRequests, rooms,
                   filteringTerms, caseRequests, cases, courtsRoomsAndCases,
                   dataForPrinting, prev, completed, zipVars, callVars>>

\* Lines 355-362: the distinct dates and rooms, the week label, and the
\* comparison with the stored label.
CheckUpdate ==
    /\ pc = "check"
    /\ dates' = extractParametersFromRoomsData(rooms)
    /\ LET d == getDatestampData(dates')
       IN  IF d.threw
           THEN Throw("TypeError: no date") /\ UNCHANGED <<datestamp, run>>
           ELSE /\ datestamp' = d.value
                /\ run' = [run EXCEPT !.label = <<d.value.spreadsheetName>>]
                /\ err' = ""
                /\ LET updateNeeded == ~(lastUpdate = <<d.value.spreadsheetName>>)
                   IN  pc' = IF updateNeeded THEN "prepare" ELSE "skipped"
    /\ UNCHANGED <<sheet, portal, lastUpdate, drive, courts, roomRequests, rooms,
                   filteringTerms, caseRequests, cases, courtsRoomsAndCases,
                   dataForPrinting, prev, completed, zipVars, callVars>>

\* Lines 366-372: the filter terms, then getDestinationSpreadsheet, which
\* finds the week's spreadsheet or creates it (and its folders) from the
\* template. Drive may refuse.
Prepare ==
    /\ pc = "prepare"
    /\ filteringTerms' = TermSheet
    /\ \/ Throw("Drive failed") /\ UNCHANGED <<drive, run>>
       \/ /\ drive' = [drive EXCEPT !.created = @ \cup {datestamp.spreadsheetName}]
          /\ run' = [run EXCEPT !.created =
                         datestamp.spreadsheetName \notin drive.created]
          /\ pc' = "build" /\ err' = ""
    /\ UNCHANGED <<sheet, portal, lastUpdate, courts, roomRequests, rooms, dates,
                   datestamp, caseRequests, cases, courtsRoomsAndCases,
                   dataForPrinting, prev, completed, zipVars, callVars>>

\* Lines 373-374: zip the courts with their dates and rooms, build the case
\* requests.
BuildCaseRequests ==
    /\ pc = "build"
    /\ LET courtsAndFechas == zipArrays(courts, dates, "weekInfo")
       IN  /\ courts' = courtsAndFechas.mainArray
           /\ IF courtsAndFechas.threw
              THEN Throw("Arrays must be same size") /\ UNCHANGED caseRequests
              ELSE /\ caseRequests' = createCaseRequestsArray(courtsAndFechas.value)
                   /\ pc' = "fetchCases" /\ err' = ""
    /\ UNCHANGED <<sheet, portal, lastUpdate, drive, roomRequests, rooms, dates,
                   datestamp, filteringTerms, cases, courtsRoomsAndCases,
                   dataForPrinting, run, prev, completed, zipVars, callVars>>

\* Line 375, getData(caseRequests): one fetchAll batch per court, then the
\* extraction.
FetchCases ==
    /\ pc = "fetchCases"
    /\ run' = [run EXCEPT !.fetched = @ \cup {"cases"}]
    /\ \/ Throw("fetchAll failed") /\ UNCHANGED cases
       \/ \E n \in CaseCounts :
             LET rawResponses ==
                     [g \in DOMAIN caseRequests |->
                         [j \in DOMAIN caseRequests[g] |->
                             CaseBody(caseRequests[g][j], n)]]
                 r == cleanAndProcessGrouped(rawResponses)
             IN  IF r.threw
                 THEN Throw("TypeError: no panel-body") /\ UNCHANGED cases
                 ELSE pc' = "zip" /\ err' = "" /\ cases' = r.value
    /\ UNCHANGED <<sheet, portal, lastUpdate, drive, courts, roomRequests, rooms,
                   dates, datestamp, filteringTerms, caseRequests, courtsRoomsAndCases,
                   dataForPrinting, prev, completed, zipVars, callVars>>

\* Lines 376-379: the aggregated result, then its rows.
Assemble ==
    /\ pc = "zip"
    /\ LET courtsAndRooms == zipArrays(courts, rooms, "roomsData")
           zipped == zipArrays(courtsAndRooms.value, cases, "casesData")
           r == readyResponsesForSheet(zipped.value, filteringTerms)
       IN  /\ courts' = courtsAndRooms.mainArray
           /\ IF courtsAndRooms.threw \/ zipped.threw
              THEN /\ Throw("Arrays must be same size")
                   /\ UNCHANGED <<courtsRoomsAndCases, dataForPrinting>>
              ELSE /\ courtsRoomsAndCases' = zipped.value
                   /\ IF r.threw
                      THEN /\ Throw("TypeError: roomsData[cbrIndex] undefined")
                           /\ UNCHANGED dataForPrinting
                      ELSE pc' = "print" /\ err' = "" /\ dataForPrinting' = r.value
    /\ UNCHANGED <<sheet, portal, lastUpdate, drive, roomRequests, rooms, dates,
                   datestamp, filteringTerms, caseRequests, cases, run, prev,
                   completed, zipVars, callVars>>

\* destinationSpreadsheet.getSheets(), in order: the template holds one tab
\* per key of the matrix.
DestinationSheets ==
    <<"Todas las causas">>
    \o [k \in DOMAIN courtsRoomsAndCases |-> courtsRoomsAndCases[k].courtData.NombreCorte]
    \o <<"Filtrado">>

\* The same step storing the week label as soon as every tab is written.
PrintToSheet_StoringLabel ==
    /\ pc = "print"
    /\ LET tabs == DestinationSheets
       IN  \E done \in {0, 1, Len(tabs)} :
              /\ drive' = [drive EXCEPT !.rows = @ \cup
                              {<<datestamp.spreadsheetName, tabs[t]>> : t \in 1..done}]
              /\ run' = [run EXCEPT !.wrote = done > 0]
              /\ IF done < Len(tabs)
                 THEN Throw("Sheets failed") /\ UNCHANGED lastUpdate
                 ELSE /\ pc' = "notify" /\ err' = ""
                      /\ lastUpdate' = <<datestamp.spreadsheetName>>
    /\ UNCHANGED <<sheet, portal, locals, prev, completed, zipVars, callVars>>

\* Line 381, printArrayToSheet: tab after tab, insertRows then setValues;
\* either call may fail, which leaves the earlier tabs written.
PrintToSheet ==
    /\ pc = "print"
    /\ LET tabs == DestinationSheets
       IN  \E done \in {0, 1, Len(tabs)} :
              /\ drive' = [drive EXCEPT !.rows = @ \cup
                              {<<datestamp.spreadsheetName, tabs[t]>> : t \in 1..done}]
              /\ run' = [run EXCEPT !.wrote = done > 0]
              /\ IF done < Len(tabs)
                 THEN Throw("Sheets failed")
                 ELSE pc' = "notify" /\ err' = ""
    /\ UNCHANGED <<sheet, portal, lastUpdate, locals, prev, completed, zipVars, callVars>>

\* Line 382, sendNotification: GmailApp.sendEmail may fail.
Notify ==
    /\ pc = "notify"
    /\ \/ /\ Throw("Gmail failed") /\ UNCHANGED run
            /\ UNCHANGED completed
       \/ /\ pc' = "store" /\ err' = ""
          /\ run' = [run EXCEPT !.notified = TRUE]
          /\ completed' = <<datestamp.spreadsheetName>>
    /\ UNCHANGED <<sheet, portal, lastUpdate, drive, locals, prev, zipVars, callVars>>

\* Line 384: the stored label becomes the week label.
StoreLabel ==
    /\ pc = "store"
    /\ lastUpdate' = <<datestamp.spreadsheetName>>
    /\ pc' = "done"
    /\ UNCHANGED <<sheet, portal, drive, err, locals, run, prev, completed, zipVars, callVars>>

\* The run is over (returned, skipped or thrown); the trigger starts the
\* next one from scratch: only the script property and Drive persist.
EndRun ==
    /\ pc \in {"done", "skipped", "failed"}
    /\ prev' = <<[outcome |-> pc, wrote |-> run.wrote]>>
    /\ pc' = "idle" /\ err' = "" /\ run' = BlankRun
    /\ courts' = <<>> /\ roomRequests' = <<>> /\ rooms' = <<>> /\ dates' = <<>>
    /\ datestamp' = <<>> /\ filteringTerms' = <<>> /\ caseRequests' = <<>>
    /\ cases' = <<>> /\ courtsRoomsAndCases' = <<>>
    /\ dataForPrinting' = <<>>
    /\ UNCHANGED <<sheet, portal, lastUpdate, drive, completed, zipVars, callVars>>

Next ==
    \/ StartRun \/ FetchRooms \/ CheckUpdate \/ Prepare \/ BuildCaseRequests
    \/ FetchCases \/ Assemble \/ PrintToSheet \/ Notify
    \/ StoreLabel \/ EndRun

Spec == Init /\ [][Next]_vars

\* ------------------------------------------------- zipArrays on its own
\* Runs that call zipArrays twice on the same base array, as
\* mainExecutionScript does with courts: first under dataIdentifier, then
\* under "roomsData".
ZObjects == UNION {[D -> {"x", UNDEF}] : D \in SUBSET ScalarFields}
ZData == {"v1", "v2"}
ZInputs ==
    {[mainArray |-> a, dataToAppend |-> b, dataIdentifier |-> f] :
        a \in UNION {SeqsOfLen(ZObjects, n) : n \in 0..MaxLen},
        b \in UNION {SeqsOfLen(ZData, n) : n \in 0..MaxLen},
        f \in {"b", "weekInfo"}}

InitZip ==
    /\ PipelineOff
    /\ CallIdle
    /\ zin \in ZInputs
    /\ zout = [mainArray |-> zin.mainArray, first |-> <<>>, second |-> <<>>]
    /\ zpc = "first"

ZipFirst ==
    /\ zpc = "first"
    /\ LET z == zipArrays(zout.mainArray, zin.dataToAppend, zin.dataIdentifier)
       IN  zout' = [zout EXCEPT !.mainArray = z.mainArray,
                                !.first = <<[threw |-> z.threw, value |-> z.value]>>]
    /\ zpc' = "second"
    /\ UNCHANGED <<pipeVars, zin, callVars>>

ZipSecond ==
    /\ zpc = "second"
    /\ LET z == zipArrays(zout.mainArray, zin.dataToAppend, "roomsData")
       IN  zout' = [zout EXCEPT !.mainArray = z.mainArray,
                                !.second = <<[threw |-> z.threw, value |-> z.value]>>]
    /\ zpc' = "done"
    /\ UNCHANGED <<pipeVars, zin, callVars>>

NextZip == ZipFirst \/ ZipSecond

SpecZip == InitZip /\ [][NextZip]_vars

\* ------------------------------------------- cleanUpResponses on its own
\* Batches of one or two bodies; the first has up to two panels, the last of
\* them with up to MaxCells cells.
MaxCells == 4
Segunda == <<"S", "e", "g", "u", "n", "d", "a">>
CellTexts == {Segunda, <<"x">>}
ThreeCells == <<<<"x">>, Segunda, <<"x">>>>
CellLists == UNION {SeqsOfLen(CellTexts, m) : m \in 0..MaxCells}
Bodies ==
    {[isRoomResponse |-> b, panels |-> p] :
        b \in BOOLEAN,
        p \in {<<>>} \cup {<<c>> : c \in CellLists}
                     \cup {<<d, c>> : d \in {<<>>, ThreeCells}, c \in CellLists}}
EmptyPanelPage == [isRoomResponse |-> TRUE, panels |-> <<ThreeCells, <<>>>>]
OneCasePage == [isRoomResponse |-> FALSE, panels |-> <<ThreeCells>>]
CleanInputs ==
    {<<b>> : b \in Bodies}
    \cup {<<b, o>> : b \in Bodies, o \in {ErrorPage, EmptyPanelPage, OneCasePage}}

InitClean ==
    /\ PipelineOff
    /\ ZipIdle
    /\ input \in CleanInputs
    /\ output = <<>>
    /\ called = "cleanUpResponses"

CleanUp ==
    /\ called = "cleanUpResponses"
    /\ output' = cleanUpResponses(input)
    /\ called' = "done"
    /\ UNCHANGED <<pipeVars, zipVars, input>>

NextClean == CleanUp

SpecClean == InitClean /\ [][NextClean]_vars

\* ------------------------------------------- the text functions on their own
\* Room names as the portal may write them: an ordinal name in lower case,
\* in upper case or capitalised, plain or with an acute accent on one of
\* its vowels; and every string of up to MaxStr characters of TextChars.
MaxStr == 2
TextChars == DOMAIN accentMap \cup {"a", "E", "x"}

toUpperCase(str) ==
    [i \in DOMAIN str |->
        IF str[i] \in Range(LowerChars)
        THEN UpperChars[IndexOf(LowerChars, str[i]) + 1]
        ELSE str[i]]

Capitalised(str) == [i \in DOMAIN str |-> IF i = 1 THEN toUpperCase(str)[i] ELSE str[i]]

\* str with an acute accent on its k-th character, where that is a vowel.
WithAccent(str, k) ==
    [i \in DOMAIN str |->
        IF i = k /\ \E c \in DOMAIN accentMap : accentMap[c] = str[i]
        THEN CHOOSE c \in DOMAIN accentMap : accentMap[c] = str[i]
        ELSE str[i]]

Spellings(str) ==
    UNION {{w, toUpperCase(w), Capitalised(w)} :
              w \in {str} \cup {WithAccent(str, k) : k \in DOMAIN str}}

TextInputs ==
    UNION {Spellings(salaStringReference[n]) : n \in DOMAIN salaStringReference}
    \cup UNION {SeqsOfLen(TextChars, n) : n \in 0..MaxStr}

InitText ==
    /\ PipelineOff
    /\ ZipIdle
    /\ input \in TextInputs
    /\ output = <<>>
    /\ called \in {"translateRoomNameToRoomNumber", "removeAccents"}

Translate ==
    /\ called = "translateRoomNameToRoomNumber"
    /\ output' = translateRoomNameToRoomNumber(input)
    /\ called' = "translated"
    /\ UNCHANGED <<pipeVars, zipVars, input>>

\* removeAccents, and removeAccents of its result.
RemoveAccents ==
    /\ called = "removeAccents"
    /\ output' = [once |-> removeAccents(input),
                  twice |-> removeAccents(removeAccents(input))]
    /\ called' = "removed"
    /\ UNCHANGED <<pipeVars, zipVars, input>>

NextText == Translate \/ RemoveAccents

SpecText == InitText /\ [][NextText]_vars

\* ------------------------------------- readyResponsesForSheet on its own
\* One court with one room and up to MaxRows cases, whose captions are
\* plain, capitalised or accented; up to MaxTerms terms, each written in
\* lower case, in upper case or with its accent.
MaxRows == 2
MaxTerms == 2
Proteccion == <<"P", "r", "o", "t", "e", "c", "c", "i", "ó", "n">>
Captions == {Queja, Amparo, Proteccion}
Terms ==
    {TermSheet[1], toUpperCase(TermSheet[1]), toLowerCase(Proteccion),
     toUpperCase(Proteccion), removeAccents(toLowerCase(Proteccion))}

CourtWithCases(captions) ==
    <<[courtData |-> SheetRow(1, "ok"),
       roomsData |-> <<[fecha |-> 20230925, salaStr |-> Segunda,
                        salaInt |-> translateRoomNameToRoomNumber(Segunda),
                        relator |-> "relator"]>>,
       casesData |-> <<[j \in DOMAIN captions |->
                          [lugar |-> "lugar", caratula |-> captions[j],
                           id_ingreso |-> ToString(j)]]>>]>>

FilterInputs ==
    {[courtsRoomsAndCases |-> CourtWithCases(c), filteringTerms |-> t] :
        c \in UNION {SeqsOfLen(Captions, n) : n \in 0..MaxRows},
        t \in UNION {SeqsOfLen(Terms, n) : n \in 0..MaxTerms}}

InitFilter ==
    /\ PipelineOff
    /\ ZipIdle
    /\ input \in FilterInputs
    /\ output = <<>>
    /\ called = "readyResponsesForSheet"

ReadyResponses ==
    /\ called = "readyResponsesForSheet"
    /\ output' = readyResponsesForSheet(input.courtsRoomsAndCases,
                                        input.filteringTerms)
    /\ called' = "ready"
    /\ UNCHANGED <<pipeVars, zipVars, input>>

NextFilter == ReadyResponses

SpecFilter == InitFilter /\ [][NextFilter]_vars

\* ------------------------------------------------------------ properties
\* obj[key] as the code reads it: undefined where the field is absent.
Read(obj, key) == IF key \in DOMAIN obj THEN obj[key] ELSE UNDEF

AllValid == \A k \in DOMAIN sheet : sheet[k] = "ok"

\* The run holds case requests (createCaseRequestsArray has returned).
HasCaseRequests == caseRequests # <<>>

\* The run holds the rows of readyResponsesForSheet.
HasRows == pc \in {"print", "notify", "store", "done"}
              \/ (pc = "failed" /\ err \in {"Sheets failed", "Gmail failed"})

DatesOf(records) == {records[r].fecha : r \in DOMAIN records}
RoomsOf(records) == {records[r].salaInt : r \in DOMAIN records}

\* C1: in the aggregated result every court has as many case lists as
\* room-assignment records.
C1_CasesMatchRooms ==
    \A c \in DOMAIN courtsRoomsAndCases :
        Len(courtsRoomsAndCases[c].casesData) = Len(courtsRoomsAndCases[c].roomsData)

\* C2: the case list at index i answers the request for the date and room of
\* the room record at index i, and every row carries the date, rapporteur and
\* room number its case was requested for.
C2_CasesBelongToTheirRoom ==
    /\ \A c \in DOMAIN courtsRoomsAndCases :
          \A i \in DOMAIN courtsRoomsAndCases[c].casesData :
              /\ i <= Len(courtsRoomsAndCases[c].roomsData)
              /\ caseRequests[c][i].payload.fecha =
                     courtsRoomsAndCases[c].roomsData[i].fecha
              /\ caseRequests[c][i].payload.numSala =
                     courtsRoomsAndCases[c].roomsData[i].salaInt
    /\ HasRows =>
          \A r \in DOMAIN dataForPrinting["Todas las causas"] :
              LET row == dataForPrinting["Todas las causas"][r]
              IN  /\ row[1] = row[3].fecha
                  /\ row[7] = row[3].numSala
                  /\ row[6].fecha = row[3].fecha
                  /\ translateRoomNameToRoomNumber(row[6].salaStr) = row[3].numSala

\* C3: zipArrays on arrays of different lengths throws, returns nothing and
\* leaves the main array as it was.
C3_ZipFailsFast ==
    Len(zin.mainArray) # Len(zin.dataToAppend) =>
        /\ zout.mainArray = zin.mainArray
        /\ \A call \in Range(zout.first) \cup Range(zout.second) :
              call.threw /\ call.value = <<>>

C3_Witness ==
    /\ zpc = "done"
    /\ Len(zin.mainArray) = 2 /\ Len(zin.dataToAppend) = 1
    /\ zout.first[1].threw /\ zout.second[1].threw

\* C4: zipArrays on arrays of the same length n returns n elements, the i-th
\* holding the i-th datum under the identifier; the main array is unmodified,
\* so a second zip under another identifier sees the main array's own fields
\* and not the field the first zip added.
C4_ZipAttachesAndCopies ==
    Len(zin.mainArray) = Len(zin.dataToAppend) =>
        /\ zout.mainArray = zin.mainArray
        /\ \A call \in Range(zout.first) :
              /\ ~call.threw
              /\ Len(call.value) = Len(zin.mainArray)
              /\ \A i \in DOMAIN call.value :
                    Read(call.value[i], zin.dataIdentifier) = zin.dataToAppend[i]
        /\ \A call \in Range(zout.second) :
              /\ ~call.threw
              /\ Len(call.value) = Len(zin.mainArray)
              /\ \A i \in DOMAIN call.value :
                    /\ Read(call.value[i], "roomsData") = zin.dataToAppend[i]
                    /\ \A k \in ScalarFields \cup {"weekInfo"} :
                          Read(call.value[i], k) = Read(zin.mainArray[i], k)

C4_Witness ==
    /\ zpc = "done"
    /\ Len(zin.mainArray) = 2 /\ Len(zin.dataToAppend) = 2
    /\ zin.dataIdentifier = "weekInfo"
    /\ zin.dataToAppend[1] # zin.dataToAppend[2]
    /\ Read(zout.first[1].value[2], "weekInfo") = "v2"
    /\ Read(zout.second[1].value[2], "weekInfo") = UNDEF

\* C5: for a valid court list of n courts createRoomRequestsArray returns n
\* requests, the i-th with the i-th court's codCorte and condicion and table
\* type 3.
C5_OneRoomRequestPerCourt ==
    (pc # "idle" /\ AllValid) =>
        /\ Len(roomRequests) = Len(sheet)
        /\ \A i \in DOMAIN roomRequests :
              roomRequests[i].payload =
                  [codTribunal |-> SheetRow(i, sheet[i]).codCorte,
                   codTypeTable |-> 3,
                   condicion |-> SheetRow(i, sheet[i]).condicion]

C5_Witness ==
    /\ pc = "fetchRooms"
    /\ Len(roomRequests) = 2
    /\ roomRequests[1].payload.codTribunal # roomRequests[2].payload.codTribunal

\* C6: with a court that lacks its code or its condition the run throws the
\* validation error and never fetches.
C6_ValidationBeforeAnyFetch ==
    ~AllValid =>
        /\ run.fetched = {}
        /\ pc \in {"idle", "failed"}
        /\ pc = "failed" => err = "Invalid court data object."

C6_Witness ==
    /\ pc = "failed"
    /\ Len(sheet) = 2 /\ sheet[1] = "ok" /\ sheet[2] = "noCond"
    /\ err = "Invalid court data object."

\* C7: createCaseRequestsArray returns one list per court, in court order,
\* holding exactly one request for each pair of a distinct date and a
\* distinct room of that court.
C7_CartesianProductPerCourt ==
    HasCaseRequests =>
        /\ Len(caseRequests) = Len(sheet)
        /\ \A c \in DOMAIN caseRequests :
              /\ {<<caseRequests[c][j].payload.fecha, caseRequests[c][j].payload.numSala>> :
                      j \in DOMAIN caseRequests[c]}
                    = DatesOf(rooms[c]) \X RoomsOf(rooms[c])
              /\ Len(caseRequests[c]) =
                     Cardinality(DatesOf(rooms[c])) * Cardinality(RoomsOf(rooms[c]))
              /\ \A j \in DOMAIN caseRequests[c] :
                    /\ caseRequests[c][j].payload.codCorte = SheetRow(c, sheet[c]).codCorte
                    /\ caseRequests[c][j].payload.condicion = SheetRow(c, sheet[c]).condicion

C7_Witness ==
    /\ HasCaseRequests
    /\ Len(caseRequests) = 2
    /\ Len(caseRequests[1]) = 4
    /\ Len(rooms[1]) = 2

\* C8: case requests exist, and the case fetch happens, only after every
\* room response has been fetched and extracted, and their dates and rooms
\* are dates and rooms of that court's room records.
C8_PhaseTwoAfterPhaseOne ==
    (HasCaseRequests \/ "cases" \in run.fetched) =>
        /\ "rooms" \in run.fetched
        /\ Len(rooms) = Len(roomRequests)
        /\ Len(caseRequests) = Len(rooms)
        /\ \A c \in DOMAIN caseRequests :
              \A j \in DOMAIN caseRequests[c] :
                  /\ caseRequests[c][j].payload.fecha \in DatesOf(rooms[c])
                  /\ caseRequests[c][j].payload.numSala \in RoomsOf(rooms[c])

C8_Witness ==
    /\ "cases" \in run.fetched
    /\ Len(rooms) = 2
    /\ Len(caseRequests[1]) = 1 /\ Len(caseRequests[2]) = 1
    /\ caseRequests[1][1].payload.fecha # caseRequests[2][1].payload.fecha

\* A run that found its week label equal to the stored one fetched no case,
\* created and wrote nothing, sent no mail and left the stored label alone;
\* and a run over a label equal to the stored one is such a run.
SkipsWhenLabelIsStored ==
    /\ pc = "skipped" =>
          /\ run.label = run.stored /\ lastUpdate = run.stored
          /\ "cases" \notin run.fetched
          /\ ~run.created /\ ~run.wrote /\ ~run.notified
    /\ (run.label # <<>> /\ run.label = run.stored) => pc = "skipped"

C10_AllOrNothing ==
    /\ pc = "failed" => ~run.created /\ ~run.wrote
    /\ pc = "done" =>
          \A t \in Range(DestinationSheets) :
              <<datestamp.spreadsheetName, t>> \in drive.rows

\* The cells of the last panel of a body that has one.
LastPanel(body) == body.panels[Len(body.panels)]

Cleaned == called = "done" /\ input \in CleanInputs

\* C11: a body without content panel fails the whole extraction, and a body
\* whose last content panel has no table cell gives an empty record list
\* without error: alone or beside bodies of its kind the extraction
\* returns, and wherever the extraction returns its list is empty.
C11_NoPanelThrowsNoCellIsEmpty ==
    Cleaned =>
        /\ (\E j \in DOMAIN input : input[j].panels = <<>>) => output.threw
        /\ (\A j \in DOMAIN input :
                input[j].panels # <<>> /\ LastPanel(input[j]) = <<>>)
              => ~output.threw
        /\ ~output.threw =>
              \A j \in DOMAIN input :
                  LastPanel(input[j]) = <<>> => output.value[j] = <<>>

\* A body with a full panel followed by an empty one, beside a body with one
\* case: the extraction returns no record for the first, one for the second.
C11_Witness ==
    /\ Cleaned
    /\ input = <<EmptyPanelPage, OneCasePage>>
    /\ output = [threw |-> FALSE,
                 value |-> <<<<>>, <<[lugar |-> <<"x">>, caratula |-> Segunda,
                                      id_ingreso |-> <<"x">>]>>>>]

\* The record the extractor is to build from the k-th group of three cells.
RecordOfGroup(isRoomResponse, cells, k) ==
    IF isRoomResponse
    THEN [fecha |-> cells[3 * k - 2], salaStr |-> cells[3 * k - 1],
          salaInt |-> translateRoomNameToRoomNumber(cells[3 * k - 1]),
          relator |-> cells[3 * k]]
    ELSE [lugar |-> cells[3 * k - 2], caratula |-> cells[3 * k - 1],
          id_ingreso |-> cells[3 * k]]

\* C12: when every body has a panel, the extraction returns, and a last
\* panel of m cells gives exactly floor(m/3) records, the k-th built from the
\* cells 3k-2, 3k-1 and 3k with every field present; one or two trailing
\* cells are dropped.
C12_FloorOfThirdsRecords ==
    (Cleaned /\ \A j \in DOMAIN input : input[j].panels # <<>>) =>
        /\ ~output.threw
        /\ \A j \in DOMAIN input :
              LET cells == LastPanel(input[j])
              IN  /\ Len(output.value[j]) = Len(cells) \div 3
                  /\ \A k \in DOMAIN output.value[j] :
                        k <= Len(cells) \div 3 =>
                            output.value[j][k] =
                                RecordOfGroup(input[j].isRoomResponse, cells, k)

\* The character without its acute accent, in the same case.
Unaccented(c) == IF c \in DOMAIN accentMap THEN accentMap[c] ELSE c

\* A string in lower case and without accents.
Folded(str) == toLowerCase([i \in DOMAIN str |-> Unaccented(str[i])])

\* C13: a spelling of the n-th of the thirteen ordinal names, in any letter
\* case and with or without accents, translates to n; every other string
\* translates to -1.
C13_OrdinalOrMinusOne ==
    called = "translated" =>
        output = IF \E n \in 1..13 : Folded(input) = salaStringReference[n + 1]
                 THEN CHOOSE n \in 1..13 : Folded(input) = salaStringReference[n + 1]
                 ELSE -1

\* C14: removeAccents replaces each of the ten accented vowels by its
\* unaccented vowel of the same case, leaves the other characters as they
\* are, and applied twice gives what it gives applied once.
C14_AllTenVowelsIdempotent ==
    called = "removed" =>
        /\ output.once = [i \in DOMAIN input |-> Unaccented(input[i])]
        /\ output.twice = output.once

\* C15: with no filter term and at least one row, the call fails or the
\* filtered output is empty.
C15_NoTermMatchesNothing ==
    (called = "ready" /\ input.filteringTerms = <<>>
        /\ input.courtsRoomsAndCases[1].casesData[1] # <<>>) =>
        output.threw \/ output.value["Filtrado"] = <<>>

\* C16: with at least one term, the filtered rows are the rows of 'Todas
\* las causas', in their order, whose caption holds a term when caption and
\* term are both put in lower case and without accents (so a term in upper
\* case or with an accent selects what its plain form selects).
C16_FoldedSubstringFilter ==
    (called = "ready" /\ input.filteringTerms # <<>>) =>
        /\ ~output.threw
        /\ LET Selected(row) ==
                   \E t \in Range(input.filteringTerms) :
                       Contains(Folded(row[4]), Folded(t))
           IN  output.value["Filtrado"] =
                   SelectSeq(output.value["Todas las causas"], Selected)

Earliest(S) == CHOOSE d \in S : \A e \in S : d <= e
Latest(S) == CHOOSE d \in S : \A e \in S : e <= d

\* C17: the week label of a run names the earliest and the latest of the
\* dates the portal gave for the first court, whatever the order of the
\* room assignments, also when these are one and the same date.
C17_LabelIsEarliestToLatest ==
    datestamp # <<>> =>
        datestamp.spreadsheetName =
            WeekLabel(Earliest(DatesOf(rooms[1])), <<Latest(DatesOf(rooms[1]))>>)

\* A failed run has left the stored label as it found it, which is not the
\* run's own label, and a run whose label is not the stored one is not
\* skipped: the next run over the same label runs the pipeline again.
FailureKeepsTheLabel ==
    /\ pc = "failed" =>
          /\ lastUpdate = run.stored
          /\ run.label # <<>> => lastUpdate # run.label
    /\ (run.label # <<>> /\ run.label # run.stored) => pc # "skipped"

====
